---------------------------- MODULE Spec2Model ----------------------------
(***************************************************************************)
(* Toulouse: the Scoppa environment (toulouse/games/scoppa.py) over the    *)
(* card and deck classes (toulouse/cards.py, toulouse/deck.py).            *)
(*                                                                         *)
(* A ScoppaEnv object is a record of its fields; every method is an        *)
(* operator from the object before the call to the object after it, and    *)
(* the actions Reset and Step apply them to the variable env.              *)
(***************************************************************************)
EXTENDS Integers, Sequences, FiniteSets, TLC

(***************************************************************************)
(* Bounds of the model.  CARD_SYSTEMS["italian_40"] has 10 values per suit *)
(* (values_map 1..10, deck_size 40); the model keeps the four suits and    *)
(* checks a card system with NumValues values per suit.  random.shuffle    *)
(* may return any permutation; the model draws it from ShuffleChoices      *)
(* fixed permutations.  A game takes at most MaxInvalid invalid actions;    *)
(* two games run side by side take at most MaxRunPlays plays.  The         *)
(* resolver is called on tables of at most MaxTable cards.  A Deck object   *)
(* on its own takes at most MaxDeckCalls calls.  The values of a card      *)
(* system registered by the caller are out of 1..MaxCoreValue.             *)
(***************************************************************************)
NumValues == 4
ShuffleChoices == 2
MaxInvalid == 1
MaxRunPlays == 7
MaxTable == 4
MaxDeckCalls == 2
MaxCoreValue == 3
MaxCoreCalls == 3

(***************************************************************************)
(* Program constants.                                                      *)
(***************************************************************************)
NumSuits == 4
MAX_HAND_SIZE == 3
INITIAL_TABLE_CARDS == 4

values_map == [i \in 1..NumValues |-> i]

DECK_SIZE == NumSuits * Len(values_map)

possible_agents == <<"player_0", "player_1">>

Agents == {possible_agents[i] : i \in 1..Len(possible_agents)}

NoAgent == "None"

Suits == 0..(NumSuits - 1)

Card(v, s) == [value |-> v, suit |-> s]

Cards == {Card(values_map[i], s) : i \in 1..Len(values_map), s \in Suits}

(***************************************************************************)
(* Python list primitives.                                                 *)
(***************************************************************************)
Range(s) == {s[i] : i \in 1..Len(s)}

SetMin(S) == CHOOSE x \in S : \A y \in S : x <= y

RemoveAt(s, i) == [j \in 1..(Len(s) - 1) |-> IF j < i THEN s[j] ELSE s[j + 1]]

\* list.remove(x): drops the first element equal to x (the caller checks x is in s)
ListRemove(s, x) == RemoveAt(s, SetMin({i \in 1..Len(s) : s[i] = x}))

\* s[-n:] and s[:-n]; for n = 0 Python's s[-0:] is the whole list and s[:-0] is empty
LastN(s, n) == IF n = 0 THEN s ELSE SubSeq(s, Len(s) - n + 1, Len(s))

AllButLastN(s, n) == IF n = 0 THEN << >> ELSE SubSeq(s, 1, Len(s) - n)

(***************************************************************************)
(* random.shuffle: the k-th permutation deals the list into k piles        *)
(* (positions r, r+k, r+2k, ...) and stacks the piles; k = 1 leaves the    *)
(* order as it is.                                                         *)
(***************************************************************************)
Pile(s, k, r) ==
    IF r > Len(s) THEN << >>
    ELSE [j \in 1..((Len(s) - r) \div k + 1) |-> s[r + (j - 1) * k]]

RECURSIVE Piles(_, _, _)
Piles(s, k, r) == IF r > k THEN << >> ELSE Pile(s, k, r) \o Piles(s, k, r + 1)

Shuffle(s, k) == Piles(s, k, 1)

\* the permutations of n successive shuffles: one sequence per state r of the
\* random generator, which yields the permutations r, r+1, ... in turn
ShuffleSeqs(n) ==
    {[i \in 1..n |-> ((r + i - 2) % ShuffleChoices) + 1] : r \in 1..ShuffleChoices}

(***************************************************************************)
(* Deck (toulouse/deck.py).  The environment's deck is built with          *)
(* sorted_deck = False, so update_sort shuffles it after construction and  *)
(* after every draw.                                                       *)
(***************************************************************************)
\* Deck(new=True): for suit_idx in range(num_suits): for value in values_map
NewDeckCards ==
    [i \in 1..DECK_SIZE |->
        Card(values_map[((i - 1) % Len(values_map)) + 1], (i - 1) \div Len(values_map))]

\* Deck.__len__; a Deck has no __bool__, so "if self.deck" tests len(deck) != 0
DeckLen(cards) == Len(cards)

DeckTruthy(deck_none, cards) == (~deck_none) /\ DeckLen(cards) # 0

\* Deck.draw(n) under @update_state: the cards drawn, the cards left (shuffled
\* by update_sort with permutation k), or the ValueError of the two checks
DeckDraw(cards, n, k) ==
    IF n < 0 \/ n > Len(cards)
    THEN [ok |-> FALSE, drawn |-> << >>, cards |-> cards]
    ELSE [ok |-> TRUE, drawn |-> LastN(cards, n),
          cards |-> Shuffle(AllButLastN(cards, n), k)]

(***************************************************************************)
(* agent_selector (pettingzoo.utils), as ScoppaEnv uses it.                *)
(***************************************************************************)
SelectorReinit(order) == [agent_order |-> order, current |-> 0, selected |-> NoAgent]

SelectorNext(sel) ==
    LET c == (sel.current + 1) % Len(sel.agent_order)
    IN  [sel EXCEPT !.current = c,
                    !.selected = sel.agent_order[IF c = 0 THEN Len(sel.agent_order) ELSE c]]

SelectorIsLast(sel) == sel.selected = sel.agent_order[Len(sel.agent_order)]

(***************************************************************************)
(* ScoppaEnv.                                                              *)
(***************************************************************************)
\* ScoppaEnv.__init__
NewEnv ==
    [deck_none       |-> TRUE,
     deck            |-> << >>,
     players_hands   |-> [a \in Agents |-> << >>],
     table_cards     |-> << >>,
     capture_pile    |-> [a \in Agents |-> << >>],
     last_capturer   |-> NoAgent,
     scopa_counts    |-> [a \in Agents |-> 0],
     terminations    |-> [a \in Agents |-> FALSE],
     truncations     |-> [a \in Agents |-> FALSE],
     rewards         |-> [a \in Agents |-> 0],
     cumulative_rewards |-> [a \in Agents |-> 0],
     agents          |-> << >>,
     selector        |-> SelectorReinit(possible_agents),
     agent_selection |-> NoAgent,
     game_over       |-> FALSE,
     error           |-> "none"]

Raise(e, what) == [e EXCEPT !.error = what]

\* _accumulate_rewards, lines 106-109: the reward of agent_selection alone is
\* added to its cumulative reward
AccumulateRewards(e) ==
    LET agent_to_accumulate_for == e.agent_selection
    IN  IF agent_to_accumulate_for \in Agents
        THEN [e EXCEPT !.cumulative_rewards[agent_to_accumulate_for] =
                           @ + e.rewards[agent_to_accumulate_for]]
        ELSE e

\* last(), lines 210-217: the reward it returns, the cumulative reward of
\* agent_selection (0.0 for an agent that has none)
Last_reward(e) ==
    IF e.agent_selection \in Agents
    THEN e.cumulative_rewards[e.agent_selection] ELSE 0

\* _clear_rewards
ClearRewards(e) == [e EXCEPT !.rewards = [a \in Agents |-> 0]]

\* _deal_cards, from the i-th agent of the order on; ks[i] is the shuffle that
\* follows the i-th draw
RECURSIVE DealFrom(_, _, _, _, _)
DealFrom(e, order, i, n, ks) ==
    IF i > Len(order) \/ e.error # "none" THEN e
    ELSE IF Len(e.deck) < n THEN e
    ELSE LET d == DeckDraw(e.deck, n, ks[i])
         IN  IF ~d.ok THEN Raise(e, "ValueError")
             ELSE DealFrom([e EXCEPT !.deck = d.cards,
                                     !.players_hands[order[i]] = @ \o d.drawn],
                           order, i + 1, n, ks)

\* _deal_cards dealing one card less than asked to each agent
DealCardsOneLess(e, n, ks) ==
    IF e.deck_none THEN Raise(e, "ValueError")
    ELSE DealFrom(e, IF e.agents # << >> THEN e.agents ELSE possible_agents,
                  1, n - 1, ks)

DealCards(e, n, ks) ==
    IF e.deck_none THEN Raise(e, "ValueError")
    ELSE DealFrom(e, IF e.agents # << >> THEN e.agents ELSE possible_agents, 1, n, ks)

\* _calculate_score counting the cards only
CalculateScoreCardsOnly(e) ==
    [a \in Agents |-> Len(e.capture_pile[a])]

\* _calculate_score
CalculateScore(e) ==
    [a \in Agents |-> Len(e.capture_pile[a]) + e.scopa_counts[a]]

\* reset that leaves the capture piles, the scopa counts and last_capturer of
\* the game before
ResetEnvKeepCaptures(e, seed, ks) ==
    LET e1 == [e EXCEPT !.agents = possible_agents,
                        !.selector = SelectorReinit(possible_agents),
                        !.rewards = [a \in Agents |-> 0],
                        !.cumulative_rewards = [a \in Agents |-> 0],
                        !.terminations = [a \in Agents |-> FALSE],
                        !.truncations = [a \in Agents |-> FALSE],
                        !.players_hands = [a \in Agents |-> << >>],
                        !.deck_none = FALSE,
                        !.deck = Shuffle(NewDeckCards, ks[1]),
                        !.table_cards = << >>,
                        !.game_over = FALSE,
                        !.error = "none"]
        e2 == DealCards(e1, MAX_HAND_SIZE, [i \in 1..2 |-> ks[i + 1]])
    IN  IF e2.error # "none" THEN e2
        ELSE IF Len(e2.deck) < INITIAL_TABLE_CARDS THEN Raise(e2, "RuntimeError")
        ELSE LET d  == DeckDraw(e2.deck, INITIAL_TABLE_CARDS, ks[4])
                 s1 == SelectorNext(SelectorReinit(e2.selector.agent_order))
             IN  [e2 EXCEPT !.deck = d.cards,
                            !.table_cards = @ \o d.drawn,
                            !.selector = s1,
                            !.agent_selection = s1.selected]

\* reset(seed): the seed is accepted and not used (the body under
\* "if seed is not None" is pass); ks are the four shuffles of random.shuffle:
\* the deck's construction and the three draws
ResetEnv(e, seed, ks) ==
    LET e1 == [e EXCEPT !.agents = possible_agents,
                        !.selector = SelectorReinit(possible_agents),
                        !.rewards = [a \in Agents |-> 0],
                        !.cumulative_rewards = [a \in Agents |-> 0],
                        !.terminations = [a \in Agents |-> FALSE],
                        !.truncations = [a \in Agents |-> FALSE],
                        !.players_hands = [a \in Agents |-> << >>],
                        !.capture_pile = [a \in Agents |-> << >>],
                        !.scopa_counts = [a \in Agents |-> 0],
                        !.deck_none = FALSE,
                        !.deck = Shuffle(NewDeckCards, ks[1]),
                        !.table_cards = << >>,
                        !.last_capturer = NoAgent,
                        !.game_over = FALSE,
                        !.error = "none"]
        e2 == DealCards(e1, MAX_HAND_SIZE, [i \in 1..2 |-> ks[i + 1]])
    IN  IF e2.error # "none" THEN e2
        ELSE IF Len(e2.deck) < INITIAL_TABLE_CARDS THEN Raise(e2, "RuntimeError")
        ELSE LET d  == DeckDraw(e2.deck, INITIAL_TABLE_CARDS, ks[4])
                 s1 == SelectorNext(SelectorReinit(e2.selector.agent_order))
             IN  [e2 EXCEPT !.deck = d.cards,
                            !.table_cards = @ \o d.drawn,
                            !.selector = s1,
                            !.agent_selection = s1.selected]

(***************************************************************************)
(* The capture resolver.  An Optional[List[Card]] is a record: is_none for *)
(* None, cards for the list.                                               *)
(***************************************************************************)
NoneResult == [is_none |-> TRUE, cards |-> << >>]

SomeResult(cs) == [is_none |-> FALSE, cards |-> cs]

\* truth value of an Optional[List]: None and the empty list are false
Truthy(r) == (~r.is_none) /\ r.cards # << >>

\* pairs ordered by their second position first
PairBeforeBySecond(p, q) == p[2] < q[2] \/ (p[2] = q[2] /\ p[1] <= q[1])

\* itertools.combinations(table, 2) yields position pairs (i, j), i < j, in
\* lexicographic order
PairBefore(p, q) == p[1] < q[1] \/ (p[1] = q[1] /\ p[2] <= q[2])

FirstPair(P) == CHOOSE p \in P : \A q \in P : PairBefore(p, q)

\* the resolver searching the pairs before the single cards
FindBestCaptureCombinationPairsFirst(played_card, current_table_cards) ==
    LET t      == current_table_cards
        direct == {i \in 1..Len(t) : t[i].value = played_card.value}
        pairs  == {p \in (1..Len(t)) \X (1..Len(t)) :
                      p[1] < p[2] /\ t[p[1]].value + t[p[2]].value = played_card.value}
    IN  IF Len(t) >= 2 /\ pairs # {}
        THEN SomeResult(<<t[FirstPair(pairs)[1]], t[FirstPair(pairs)[2]]>>)
        ELSE IF direct # {} THEN SomeResult(<<t[SetMin(direct)]>>)
             ELSE NoneResult

\* _find_best_capture_combination
FindBestCaptureCombination(played_card, current_table_cards) ==
    LET t      == current_table_cards
        direct == {i \in 1..Len(t) : t[i].value = played_card.value}
        pairs  == {p \in (1..Len(t)) \X (1..Len(t)) :
                      p[1] < p[2] /\ t[p[1]].value + t[p[2]].value = played_card.value}
    IN  IF direct # {} THEN SomeResult(<<t[SetMin(direct)]>>)
        ELSE IF Len(t) >= 2 /\ pairs # {}
             THEN SomeResult(<<t[FirstPair(pairs)[1]], t[FirstPair(pairs)[2]]>>)
             ELSE NoneResult

(***************************************************************************)
(* step(action).                                                           *)
(***************************************************************************)
AllHandsEmpty(e) == \A a \in Agents : e.players_hands[a] = << >>

\* the test of line 162 with its upper bound off by one
ValidActionUpTo(hand, action) == 0 <= action /\ action <= Len(hand)

\* the test of line 162
ValidAction(hand, action) == 0 <= action /\ action < Len(hand)

\* the invalid-action branch clamping the index: the last card of the hand
\* is dropped on the table
InvalidActionClamped(e, a) ==
    LET hand == e.players_hands[a]
    IN  IF hand = << >> THEN [e EXCEPT !.rewards[a] = -1]
        ELSE [e EXCEPT !.rewards[a] = -1,
                       !.players_hands[a] = SubSeq(hand, 1, Len(hand) - 1),
                       !.table_cards = Append(@, hand[Len(hand)])]

\* the invalid-action branch
InvalidAction(e, a) == [e EXCEPT !.rewards[a] = -1]

\* CaptureCards without table.remove: the captured cards stay on the table
RECURSIVE CaptureCardsKeepTable(_, _, _, _)
CaptureCardsKeepTable(e, a, cs, i) ==
    IF i > Len(cs) THEN e
    ELSE CaptureCardsKeepTable([e EXCEPT !.capture_pile[a] = Append(@, cs[i])],
                               a, cs, i + 1)

\* for card_obj in cards_to_capture: pile.append(card_obj); table.remove(card_obj)
RECURSIVE CaptureCards(_, _, _, _)
CaptureCards(e, a, cs, i) ==
    IF i > Len(cs) THEN e
    ELSE IF cs[i] \notin Range(e.table_cards) THEN Raise(e, "ValueError")
    ELSE CaptureCards([e EXCEPT !.capture_pile[a] = Append(@, cs[i]),
                                !.table_cards = ListRemove(@, cs[i])],
                      a, cs, i + 1)

\* the scopa check without its test of the table: every capture is a scopa
ScopaCheckAnyCapture(e, a) ==
    [e EXCEPT !.scopa_counts[a] = @ + 1, !.rewards[a] = 1]

\* lines 175-176 and 180: a capture that empties the table is a scopa
ScopaCheck(e, a) ==
    IF e.table_cards = << >>
    THEN [e EXCEPT !.scopa_counts[a] = @ + 1, !.rewards[a] = 1]
    ELSE [e EXCEPT !.rewards[a] = 0]

\* the play branch without line 174: a capture leaves last_capturer as it was
PlayCardKeepCapturer(e, a, action) ==
    LET hand == e.players_hands[a]
        n    == Len(hand)
    IN  IF action >= n \/ action < -n THEN Raise(e, "IndexError")
        ELSE
        LET pos    == IF action >= 0 THEN action + 1 ELSE n + action + 1
            played == hand[pos]
            e1     == [e EXCEPT !.players_hands[a] = RemoveAt(hand, pos)]
            cap    == FindBestCaptureCombination(played, e1.table_cards)
        IN  IF Truthy(cap)
            THEN LET e2 == CaptureCards([e1 EXCEPT !.capture_pile[a] = Append(@, played)],
                                        a, cap.cards, 1)
                 IN  IF e2.error # "none" THEN e2 ELSE ScopaCheck(e2, a)
            ELSE [e1 EXCEPT !.table_cards = Append(@, played), !.rewards[a] = 0]

\* the play branch: hand.pop(action), the resolver, capture or lay down
PlayCard(e, a, action) ==
    LET hand == e.players_hands[a]
        n    == Len(hand)
    IN  IF action >= n \/ action < -n THEN Raise(e, "IndexError")
        ELSE
        LET pos    == IF action >= 0 THEN action + 1 ELSE n + action + 1
            played == hand[pos]
            e1     == [e EXCEPT !.players_hands[a] = RemoveAt(hand, pos)]
            cap    == FindBestCaptureCombination(played, e1.table_cards)
        IN  IF Truthy(cap)
            THEN LET e2 == CaptureCards([e1 EXCEPT !.capture_pile[a] = Append(@, played)],
                                        a, cap.cards, 1)
                     e3 == [e2 EXCEPT !.last_capturer = a]
                 IN  IF e2.error # "none" THEN e2 ELSE ScopaCheck(e3, a)
            ELSE [e1 EXCEPT !.table_cards = Append(@, played), !.rewards[a] = 0]

\* the round refill testing that some hand is empty, not all
RefillHandsAnyHandEmpty(e, ks) ==
    IF DeckTruthy(e.deck_none, e.deck)
       /\ (\E a \in Agents : e.players_hands[a] = << >>) /\ Len(e.deck) > 0
    THEN IF Len(e.deck) >= Len(possible_agents) * MAX_HAND_SIZE
         THEN DealCards(e, MAX_HAND_SIZE, ks)
         ELSE e
    ELSE e

\* the round refill of lines 183-186
RefillHands(e, ks) ==
    IF DeckTruthy(e.deck_none, e.deck) /\ AllHandsEmpty(e) /\ Len(e.deck) > 0
    THEN IF Len(e.deck) >= Len(possible_agents) * MAX_HAND_SIZE
         THEN DealCards(e, MAX_HAND_SIZE, ks)
         ELSE e
    ELSE e

\* the condition of line 189
GameJustEnded(e) ==
    DeckTruthy(e.deck_none, e.deck) /\ Len(e.deck) = 0 /\ AllHandsEmpty(e)

\* the table sweep of lines 191-192
SweepTable(e) ==
    IF e.last_capturer # NoAgent /\ e.table_cards # << >>
    THEN [e EXCEPT !.capture_pile[e.last_capturer] = @ \o e.table_cards,
                   !.table_cards = << >>]
    ELSE e

\* lines 190-198
EndGame(e) ==
    LET e1 == SweepTable(e)
        final_scores == CalculateScore(e1)
    IN  [e1 EXCEPT !.game_over = TRUE,
                   !.terminations = [a \in Agents |-> TRUE],
                   !.rewards = [a \in Agents |-> e1.rewards[a] + final_scores[a]]]

\* lines 200-207 with the next() after the reinit left out
AdvanceTurnKeepOnLast(e, agent_acted, game_just_ended) ==
    IF game_just_ended
    THEN [e EXCEPT !.terminations[agent_acted] = TRUE, !.agents = << >>]
    ELSE IF SelectorIsLast(e.selector)
         THEN [e EXCEPT !.selector = SelectorReinit(e.agents)]
         ELSE LET s1 == SelectorNext(e.selector)
              IN  [e EXCEPT !.selector = s1, !.agent_selection = s1.selected]

\* lines 200-207
AdvanceTurn(e, agent_acted, game_just_ended) ==
    IF game_just_ended
    THEN [e EXCEPT !.terminations[agent_acted] = TRUE, !.agents = << >>]
    ELSE LET s1 == IF SelectorIsLast(e.selector)
                   THEN SelectorNext(SelectorReinit(e.agents))
                   ELSE SelectorNext(e.selector)
         IN  [e EXCEPT !.selector = s1, !.agent_selection = s1.selected]

\* step(action); ks are the shuffles that follow the two draws of a refill
StepEnv(e, action, ks) ==
    LET agent_acted == e.agent_selection
    IN  IF e.terminations[agent_acted] \/ e.truncations[agent_acted]
        THEN LET e1 == ClearRewards(AccumulateRewards(e))
                 s1 == SelectorNext(e1.selector)
             IN  IF e1.agents # << >>
                 THEN [e1 EXCEPT !.selector = s1, !.agent_selection = s1.selected]
                 ELSE e1
        ELSE
        LET e1 == ClearRewards(AccumulateRewards(e))
            e2 == IF ~ValidAction(e1.players_hands[agent_acted], action)
                  THEN InvalidAction(e1, agent_acted)
                  ELSE PlayCard(e1, agent_acted, action)
            e3 == RefillHands(e2, ks)
            ended == GameJustEnded(e3)
            e4 == IF ended THEN EndGame(e3) ELSE e3
        IN  IF e2.error # "none" THEN e2
            ELSE IF e3.error # "none" THEN e3
            ELSE AdvanceTurn(e4, agent_acted, ended)

\* the infos dictionaries after reset (line 125): each agent's is empty
ResetInfos(i) == [a \in Agents |-> {}]

\* the infos dictionaries after step(action), as the sets of their keys: line
\* 163 sets 'error' in the acting agent's, line 181 updates it with
\* 'scopa_achieved' and 'played_card', line 198 sets 'final_score' in every
\* agent's; no line of step takes a key out
StepInfos(e, i, action, ks) ==
    LET agent_acted == e.agent_selection
        e1    == ClearRewards(AccumulateRewards(e))
        valid == ValidAction(e1.players_hands[agent_acted], action)
        e2    == IF ~valid THEN InvalidAction(e1, agent_acted)
                 ELSE PlayCard(e1, agent_acted, action)
        e3    == RefillHands(e2, ks)
        i2    == IF ~valid
                 THEN [i EXCEPT ![agent_acted] = @ \cup {"error"}]
                 ELSE [i EXCEPT ![agent_acted] =
                                    @ \cup {"scopa_achieved", "played_card"}]
    IN  IF e.terminations[agent_acted] \/ e.truncations[agent_acted] THEN i
        ELSE IF e2.error # "none" THEN i
        ELSE IF e3.error # "none" THEN i2
        ELSE IF GameJustEnded(e3)
        THEN [a \in Agents |-> i2[a] \cup {"final_score"}]
        ELSE i2

\* the action_mask with every bit set, whatever the hand holds
Observe_action_mask_all_ones(e, agent_id) == [i \in 1..MAX_HAND_SIZE |-> 1]

\* the action_mask of observe(agent_id), lines 269-272: np.zeros(MAX_HAND_SIZE)
\* with action_mask[:len(hand)] = 1 unless the agent is terminated or truncated
\* (position i + 1 is index i)
Observe_action_mask(e, agent_id) ==
    LET num_cards_in_hand == Len(e.players_hands[agent_id])
    IN  [i \in 1..MAX_HAND_SIZE |->
            IF ~(e.terminations[agent_id] \/ e.truncations[agent_id])
               /\ i <= num_cards_in_hand
            THEN 1 ELSE 0]

(***************************************************************************)
(* The Card and Deck classes on their own (toulouse/cards.py,              *)
(* toulouse/deck.py).  A Card is the record of its value, suit and         *)
(* card_system_key, the three fields Card.__eq__ compares.  A Deck object  *)
(* is the record of its cards, card_system_key, sorted flag and state; a   *)
(* call gives the object after it, the value returned and the exception    *)
(* raised.  standard_52 is scaled as italian_40 is, with one value more.   *)
(***************************************************************************)
CARD_SYSTEMS ==
    [italian_40  |-> [values_map |-> values_map,
                      deck_size  |-> DECK_SIZE,
                      num_suits  |-> NumSuits],
     standard_52 |-> [values_map |-> [i \in 1..(NumValues + 1) |-> i],
                      deck_size  |-> NumSuits * (NumValues + 1),
                      num_suits  |-> NumSuits]]

SystemKeys == DOMAIN CARD_SYSTEMS

\* Card(value, suit, card_system_key)
SystemCard(value, suit, key) == [value |-> value, suit |-> suit, card_system_key |-> key]

\* the cards Card.__init__ accepts: value in values_map, 0 <= suit < num_suits
SystemCards(key) ==
    {SystemCard(CARD_SYSTEMS[key].values_map[i], suit, key) :
        i \in 1..Len(CARD_SYSTEMS[key].values_map),
        suit \in 0..(CARD_SYSTEMS[key].num_suits - 1)}

\* list.index(x): the 0-based position of the first element equal to x
ListIndex(s, x) ==
    (CHOOSE i \in 1..Len(s) : s[i] = x /\ \A j \in 1..(i - 1) : s[j] # x) - 1

\* Card.calculate_index with the suit and the value position exchanged
calculate_index_value_major(card) ==
    LET vm        == CARD_SYSTEMS[card.card_system_key].values_map
        value_idx == ListIndex(vm, card.value)
    IN  value_idx * CARD_SYSTEMS[card.card_system_key].num_suits + card.suit

\* Card.calculate_index: values_map.index(value) + suit * len(values_map)
calculate_index(card) ==
    LET vm        == CARD_SYSTEMS[card.card_system_key].values_map
        value_idx == ListIndex(vm, card.value)
    IN  value_idx + card.suit * Len(vm)

\* Card.__lt__(self, other): NotImplemented for a card of another system
Card_lt(self, other) ==
    IF self.card_system_key # other.card_system_key
    THEN [not_implemented |-> TRUE, result |-> FALSE]
    ELSE IF self.value = other.value
    THEN [not_implemented |-> FALSE, result |-> self.suit < other.suit]
    ELSE [not_implemented |-> FALSE, result |-> self.value < other.value]

NoRaise == "none"

\* the texts of the two exceptions of remove (lines 208 and 213), without the
\* card and the systems they name; the texts of the other exceptions are not
\* told apart
NoMessage == ""
CannotRemoveMessage == "Cannot remove card {card} with system '{key}' from deck with system '{key}'."
NotFoundMessage == "Card {card} not found in deck."

CallResult(d, ret, raised) ==
    [deck |-> d, ret |-> ret, raised |-> raised, message |-> NoMessage]

\* Deck.calculate_state: the vector of deck_size bits (position i + 1 is index
\* i), or the ValueError of a card of another system
Deck_calculate_state(d) ==
    IF \E j \in 1..Len(d.cards) : d.cards[j].card_system_key # d.card_system_key
    THEN [raised |-> "ValueError", state |-> << >>]
    ELSE LET set == {calculate_index(d.cards[j]) : j \in 1..Len(d.cards)}
         IN  [raised |-> NoRaise,
              state  |-> [i \in 1..CARD_SYSTEMS[d.card_system_key].deck_size |->
                             IF (i - 1) \in set THEN 1 ELSE 0]]

\* list.sort(key = calculate_index): a stable sort
RECURSIVE SortByIndex(_)
SortByIndex(cards) ==
    IF cards = << >> THEN << >>
    ELSE LET r == SortByIndex(SubSeq(cards, 1, Len(cards) - 1))
             c == cards[Len(cards)]
             key == calculate_index(c)
             n == Cardinality({i \in 1..Len(r) : calculate_index(r[i]) <= key})
         IN  SubSeq(r, 1, n) \o <<c>> \o SubSeq(r, n + 1, Len(r))

\* update_sort that leaves a sorted deck in the order it finds it in
Deck_update_sort_keep_order(d, k) ==
    IF d.sorted THEN d
    ELSE [d EXCEPT !.cards = Shuffle(@, k)]

\* Deck.update_sort; k is the permutation random.shuffle takes
Deck_update_sort(d, k) ==
    IF d.sorted THEN [d EXCEPT !.cards = SortByIndex(@)]
    ELSE [d EXCEPT !.cards = Shuffle(@, k)]

\* the decorator without line 118: the state is left as it was
UpdateStateSortOnly(d, ret, k) == CallResult(Deck_update_sort(d, k), ret, NoRaise)

\* what the update_state decorator does once the method has returned
UpdateState(d, ret, k) ==
    LET st == Deck_calculate_state(d)
    IN  IF st.raised # NoRaise THEN CallResult(d, << >>, st.raised)
        ELSE CallResult(Deck_update_sort([d EXCEPT !.state = st.state], k), ret, NoRaise)

\* the cards of Deck(new=True): for suit_idx in range(num_suits): for value in values_map
NewCards(key) ==
    LET vm == CARD_SYSTEMS[key].values_map
    IN  [i \in 1..(CARD_SYSTEMS[key].num_suits * Len(vm)) |->
            SystemCard(vm[((i - 1) % Len(vm)) + 1], (i - 1) \div Len(vm), key)]

\* Deck.__init__(cards, new, sorted_deck, card_system_key)
Deck_init(cards, new, sorted_deck, key, k) ==
    IF key \notin SystemKeys
    THEN CallResult([cards |-> << >>, card_system_key |-> key,
                     sorted |-> sorted_deck, state |-> << >>], << >>, "ValueError")
    ELSE UpdateState([cards           |-> IF new THEN NewCards(key) ELSE cards,
                      card_system_key |-> key,
                      sorted          |-> sorted_deck,
                      state           |-> << >>], << >>, k)

\* Deck.draw that hands out what is there when more is asked for
Deck_draw_clamped(d, num_cards, k) ==
    IF num_cards < 0
    THEN CallResult(d, << >>, "ValueError")
    ELSE LET n == IF num_cards > Len(d.cards) THEN Len(d.cards) ELSE num_cards
         IN  UpdateState([d EXCEPT !.cards = AllButLastN(d.cards, n)],
                         LastN(d.cards, n), k)

\* Deck.draw(num_cards) under @update_state: the two slices of lines 184-185
Deck_draw(d, num_cards, k) ==
    IF num_cards < 0
    THEN CallResult(d, << >>, "ValueError")
    ELSE IF num_cards > Len(d.cards)
    THEN CallResult(d, << >>, "ValueError")
    ELSE UpdateState([d EXCEPT !.cards = AllButLastN(d.cards, num_cards)],
                     LastN(d.cards, num_cards), k)

\* Deck._get_cards: a single Card is the list of that card
GetCards(cards_input) == cards_input

\* one turn of the loop of remove that lets a missing card pass
RemoveOneSilent(d, card_to_remove) ==
    IF card_to_remove.card_system_key # d.card_system_key
    THEN [deck |-> d, raised |-> "ValueError", message |-> CannotRemoveMessage]
    ELSE IF card_to_remove \notin Range(d.cards)
    THEN [deck |-> d, raised |-> NoRaise, message |-> NoMessage]
    ELSE [deck |-> [d EXCEPT !.cards = ListRemove(@, card_to_remove)],
          raised |-> NoRaise, message |-> NoMessage]

\* one turn of the loop of remove (lines 204-213)
RemoveOne(d, card_to_remove) ==
    IF card_to_remove.card_system_key # d.card_system_key
    THEN [deck |-> d, raised |-> "ValueError", message |-> CannotRemoveMessage]
    ELSE IF card_to_remove \notin Range(d.cards)
    THEN [deck |-> d, raised |-> "ValueError", message |-> NotFoundMessage]
    ELSE [deck |-> [d EXCEPT !.cards = ListRemove(@, card_to_remove)],
          raised |-> NoRaise, message |-> NoMessage]

RECURSIVE RemoveLoop(_, _, _)
RemoveLoop(d, cards_to_remove, i) ==
    IF i > Len(cards_to_remove) THEN [deck |-> d, raised |-> NoRaise, message |-> NoMessage]
    ELSE LET r == RemoveOne(d, cards_to_remove[i])
         IN  IF r.raised # NoRaise THEN r
             ELSE RemoveLoop(r.deck, cards_to_remove, i + 1)

\* Deck.remove(cards_to_remove) under @update_state: an exception leaves the
\* cards removed so far removed and skips the update of state and order
Deck_remove(d, cards_to_remove, k) ==
    LET r == RemoveLoop(d, GetCards(cards_to_remove), 1)
    IN  IF r.raised # NoRaise
        THEN [CallResult(r.deck, << >>, r.raised) EXCEPT !.message = r.message]
        ELSE UpdateState(r.deck, << >>, k)

\* one turn of the loop of append without the test of line 229
AppendOneAnySystem(d, card_to_add) ==
    IF card_to_add \in Range(d.cards)
    THEN [deck |-> d, raised |-> "ValueError"]
    ELSE [deck |-> [d EXCEPT !.cards = Append(@, card_to_add)], raised |-> NoRaise]

\* one turn of the loop of append without the test of line 232
AppendOneUnchecked(d, card_to_add) ==
    IF card_to_add.card_system_key # d.card_system_key
    THEN [deck |-> d, raised |-> "ValueError"]
    ELSE [deck |-> [d EXCEPT !.cards = Append(@, card_to_add)], raised |-> NoRaise]

\* one turn of the loop of append (lines 229-234)
AppendOne(d, card_to_add) ==
    IF card_to_add.card_system_key # d.card_system_key
    THEN [deck |-> d, raised |-> "ValueError"]
    ELSE IF card_to_add \in Range(d.cards)
    THEN [deck |-> d, raised |-> "ValueError"]
    ELSE [deck |-> [d EXCEPT !.cards = Append(@, card_to_add)], raised |-> NoRaise]

RECURSIVE AppendLoop(_, _, _)
AppendLoop(d, cards_to_add, i) ==
    IF i > Len(cards_to_add) THEN [deck |-> d, raised |-> NoRaise]
    ELSE LET r == AppendOne(d, cards_to_add[i])
         IN  IF r.raised # NoRaise THEN r
             ELSE AppendLoop(r.deck, cards_to_add, i + 1)

\* Deck.append(cards_to_add) under @update_state
Deck_append(d, cards_to_add, k) ==
    LET r == AppendLoop(d, GetCards(cards_to_add), 1)
    IN  IF r.raised # NoRaise THEN CallResult(r.deck, << >>, r.raised)
        ELSE UpdateState(r.deck, << >>, k)

\* the loop of from_state from index i on (lines 292-305): the cards of the
\* set bits, in the order of the indices
RECURSIVE FromStateCards(_, _, _)
FromStateCards(state_array, key, i) ==
    LET num_values_per_suit == Len(CARD_SYSTEMS[key].values_map)
        suit_idx            == i \div num_values_per_suit
        value_map_idx       == i % num_values_per_suit
    IN  IF i >= Len(state_array) THEN << >>
        ELSE IF state_array[i + 1] = 1
        THEN <<SystemCard(CARD_SYSTEMS[key].values_map[value_map_idx + 1], suit_idx, key)>>
                \o FromStateCards(state_array, key, i + 1)
        ELSE FromStateCards(state_array, key, i + 1)

\* Deck.from_state(state_array, card_system_key)
Deck_from_state(state_array, key) ==
    LET NoDeck == [cards |-> << >>, card_system_key |-> key,
                   sorted |-> TRUE, state |-> << >>]
    IN  IF key \notin SystemKeys THEN CallResult(NoDeck, << >>, "ValueError")
        ELSE IF Len(state_array) # CARD_SYSTEMS[key].deck_size
        THEN CallResult(NoDeck, << >>, "ValueError")
        ELSE IF \E i \in 0..(Len(state_array) - 1) :
                   /\ state_array[i + 1] = 1
                   /\ i \div Len(CARD_SYSTEMS[key].values_map) >= CARD_SYSTEMS[key].num_suits
        THEN CallResult(NoDeck, << >>, "ValueError")
        ELSE Deck_init(FromStateCards(state_array, key, 0), FALSE, TRUE, key, 1)

(***************************************************************************)
(* The card-system registry and the Card class of toulouse/core.py.  A     *)
(* config is the function of the fields it holds, so a config may miss a   *)
(* field.  The two predefined systems are scaled as italian_40 is above.   *)
(***************************************************************************)
Core_CARD_SYSTEMS ==
    [italian_40 |-> [suits     |-> <<"Denari", "Coppe", "Spade", "Bastoni">>,
                     values    |-> values_map,
                     deck_size |-> DECK_SIZE],
     spanish_40 |-> [suits     |-> <<"Oros", "Copas", "Espadas", "Bastos">>,
                     values    |-> values_map,
                     deck_size |-> DECK_SIZE]]

RequiredFields == <<"suits", "values", "deck_size">>

\* the first required field the config misses, 0 if it misses none
FirstMissing(config) ==
    IF \A i \in 1..Len(RequiredFields) : RequiredFields[i] \in DOMAIN config THEN 0
    ELSE CHOOSE i \in 1..Len(RequiredFields) :
            /\ RequiredFields[i] \notin DOMAIN config
            /\ \A j \in 1..(i - 1) : RequiredFields[j] \in DOMAIN config

\* register_card_system(key, config): the registry after the call and the
\* exception raised
Core_register_card_system(systems, key, config) ==
    IF key \in DOMAIN systems
    THEN [systems |-> systems, raised |-> "ValueError"]
    ELSE IF FirstMissing(config) # 0
    THEN [systems |-> systems, raised |-> "ValueError"]
    ELSE [systems |-> [k \in DOMAIN systems \cup {key} |->
                          IF k = key THEN config ELSE systems[k]],
          raised  |-> NoRaise]

\* get_card_system(key)
Core_get_card_system(systems, key) ==
    IF key \notin DOMAIN systems
    THEN [raised |-> "KeyError", system |-> << >>]
    ELSE [raised |-> NoRaise, system |-> systems[key]]

\* Card.__post_init__: the exception the construction of the card raises
Core_Card_post_init(systems, value, suit, key) ==
    LET r == Core_get_card_system(systems, key)
    IN  IF r.raised # NoRaise THEN r.raised
        ELSE IF value \notin Range(r.system["values"]) THEN "ValueError"
        ELSE IF ~(0 <= suit /\ suit < Len(r.system["suits"])) THEN "ValueError"
        ELSE NoRaise

\* min(values)
SeqMin(s) == SetMin(Range(s))

\* Card.to_index: suit * len(values) + (value - min(values))
Core_to_index(systems, card) ==
    LET system == systems[card.card_system_key]
    IN  card.suit * Len(system["values"]) + (card.value - SeqMin(system["values"]))

(***************************************************************************)
(* The Deck class of toulouse/core.py.  A Deck is the record of its         *)
(* card_system_key, its list _cards and its lookup set _card_set; a Card is *)
(* the record of its value, suit and card_system_key, which the frozen      *)
(* dataclass compares and hashes.  A call gives the deck after it, the      *)
(* value returned and the exception raised.                                 *)
(***************************************************************************)
\* Deck(card_system_key=key): no cards
Core_Deck(key) == [card_system_key |-> key, _cards |-> << >>, _card_set |-> {}]

CoreResult(d, ret, raised) == [deck |-> d, ret |-> ret, raised |-> raised]

\* Deck.reset: the cards of the system, suit by suit, and the set of them
Core_Deck_reset(systems, d) ==
    LET system == systems[d.card_system_key]
        nv     == Len(system["values"])
        cards  == [i \in 1..(Len(system["suits"]) * nv) |->
                      SystemCard(system["values"][((i - 1) % nv) + 1],
                                 (i - 1) \div nv, d.card_system_key)]
    IN  CoreResult([d EXCEPT !._cards = cards, !._card_set = Range(cards)],
                   << >>, NoRaise)

\* Deck.new_deck(key): sorted_deck defaults to True, so no shuffle follows
Core_Deck_new_deck(systems, key) == Core_Deck_reset(systems, Core_Deck(key)).deck

\* Deck.draw(n)
Core_Deck_draw(d, n) ==
    LET m     == IF n < Len(d._cards) THEN (IF n < 0 THEN 0 ELSE n) ELSE Len(d._cards)
        drawn == SubSeq(d._cards, 1, m)
    IN  CoreResult([d EXCEPT !._cards = SubSeq(@, m + 1, Len(@)),
                             !._card_set = @ \ Range(drawn)],
                   drawn, NoRaise)

\* Deck.shuffle: random.shuffle leaves one of the permutations of the list
Core_Deck_shuffle(d, k) ==
    CoreResult([d EXCEPT !._cards = Shuffle(@, k)], << >>, NoRaise)

\* list.sort(key=to_index): stable, ascending
RECURSIVE CoreSortByIndex(_, _)
CoreSortByIndex(systems, cards) ==
    IF cards = << >> THEN << >>
    ELSE LET r   == CoreSortByIndex(systems, SubSeq(cards, 1, Len(cards) - 1))
             c   == cards[Len(cards)]
             key == Core_to_index(systems, c)
             n   == Cardinality({i \in 1..Len(r) : Core_to_index(systems, r[i]) <= key})
         IN  SubSeq(r, 1, n) \o <<c>> \o SubSeq(r, n + 1, Len(r))

\* Deck.sort
Core_Deck_sort(systems, d) ==
    CoreResult([d EXCEPT !._cards = CoreSortByIndex(systems, @)], << >>, NoRaise)

\* Deck.append(card): the card's system is tested, its presence is not
Core_Deck_append(d, card) ==
    IF card.card_system_key # d.card_system_key
    THEN CoreResult(d, << >>, "ValueError")
    ELSE CoreResult([d EXCEPT !._cards = Append(@, card),
                              !._card_set = @ \cup {card}],
                    << >>, NoRaise)

\* Deck.remove(card): list.remove raises ValueError for a card the list does
\* not hold and drops the first copy of one it holds; the set drops the card
Core_Deck_remove(d, card) ==
    IF card \notin Range(d._cards)
    THEN CoreResult(d, << >>, "ValueError")
    ELSE CoreResult([d EXCEPT !._cards = ListRemove(@, card),
                              !._card_set = @ \ {card}],
                    << >>, NoRaise)

\* Deck.contains(card)
Core_Deck_contains(d, card) == card \in d._card_set

\* self.move_card_to(card, other_deck): self.remove(card), then
\* other_deck.append(card); an exception of either ends the call there
Core_Deck_move_card_to(self, card, other_deck) ==
    LET r == Core_Deck_remove(self, card)
        a == Core_Deck_append(other_deck, card)
    IN  IF r.raised # NoRaise
        THEN [self |-> self, other_deck |-> other_deck, raised |-> r.raised]
        ELSE IF a.raised # NoRaise
        THEN [self |-> r.deck, other_deck |-> other_deck, raised |-> a.raised]
        ELSE [self |-> r.deck, other_deck |-> a.deck, raised |-> NoRaise]

(***************************************************************************)
(* The state machine: one environment, reset and stepped by its caller.    *)
(***************************************************************************)
\* env: the ScoppaEnv object.  plays, invalid: the valid and the invalid
\* actions taken since the last reset (history, read by no operation).
\* env2: a second ScoppaEnv object, run beside env under SpecRuns.
\* call: one call of the capture resolver, under SpecResolver.
\* deck_obj: a Deck object, under SpecDeck.  deck_call: the last call made on
\* it (history): the method, its arguments, the object before the call, the
\* value returned, the exception raised and its text, and the number of calls
\* so far.
\* registry: the module's _CARD_SYSTEMS, under SpecRegistry.  reg_call: the
\* last call made on it (history).
\* infos: the keys of the env's infos dictionaries, under SpecInfos; reset and
\* step write them and read none of them, and the other specifications follow
\* the env without them.
\* decks: two Deck objects of toulouse/core.py, under SpecCoreDeck and
\* SpecCoreMove.  core_call: the last call made on them (history).
VARIABLES env, plays, invalid, env2, call, deck_obj, deck_call, registry, reg_call,
          infos, decks, core_call

vars == <<env, plays, invalid, env2, call, deck_obj, deck_call, registry, reg_call,
          infos, decks, core_call>>

\* reset(seed): the seeds the caller passes
Seeds == {42}

\* the action space is Discrete(MAX_HAND_SIZE); the caller may pass any integer
Actions == -1..MAX_HAND_SIZE

\* whether step(action) on e takes the play branch
Plays(e, action) ==
    /\ ~(e.terminations[e.agent_selection] \/ e.truncations[e.agent_selection])
    /\ ValidAction(e.players_hands[e.agent_selection], action)

\* the shuffles a step of e can make: a step deals only when it leaves both
\* hands empty, so a step from any other state shuffles nothing
RefillShuffles(e) ==
    IF \A a \in Agents : Len(e.players_hands[a]) <= 1
    THEN ShuffleSeqs(Len(possible_agents))
    ELSE {[i \in 1..Len(possible_agents) |-> 1]}

NoCall == [played_card |-> Card(values_map[1], 0), current_table_cards |-> << >>,
           result |-> NoneResult, done |-> FALSE]

NoDeck == Deck_init(<< >>, FALSE, TRUE, "italian_40", 1).deck

DeckCall(op, num_cards, cards_arg, before, r, calls, rng) ==
    [op |-> op, num_cards |-> num_cards, cards_arg |-> cards_arg, before |-> before,
     ret |-> r.ret, raised |-> r.raised, message |-> r.message, calls |-> calls,
     rng |-> rng]

NoDeckCall ==
    DeckCall("__init__", 0, << >>, NoDeck, CallResult(NoDeck, << >>, NoRaise), 0, 1)

RegCall(op, key, config, card, before, index, raised) ==
    [op |-> op, key |-> key, config |-> config, card |-> card, before |-> before,
     index |-> index, raised |-> raised]

NoRegCall ==
    RegCall("import", "italian_40", Core_CARD_SYSTEMS["italian_40"],
            SystemCard(values_map[1], 0, "italian_40"), Core_CARD_SYSTEMS, 0, NoRaise)

\* the infos dictionaries as the constructor leaves them (line 53): the set of
\* the keys each agent's dictionary holds
NoInfos == [a \in Agents |-> {}]

\* the two decks of a caller of toulouse/core.py before their construction
DeckNames == {"deck1", "deck2"}

NoDecks == [name \in DeckNames |-> Core_Deck("italian_40")]

CoreCall(op, on, card, n, r_ret, raised, before, calls) ==
    [op |-> op, on |-> on, card |-> card, n |-> n, ret |-> r_ret,
     raised |-> raised, before |-> before, calls |-> calls]

NoCoreCall ==
    CoreCall("import", "deck1", SystemCard(values_map[1], 0, "italian_40"), 0,
             << >>, NoRaise, NoDecks, 0)

Init ==
    /\ env = NewEnv
    /\ plays = 0
    /\ invalid = 0
    /\ env2 = NewEnv
    /\ call = NoCall
    /\ deck_obj = NoDeck
    /\ deck_call = NoDeckCall
    /\ registry = Core_CARD_SYSTEMS
    /\ reg_call = NoRegCall
    /\ infos = NoInfos
    /\ decks = NoDecks
    /\ core_call = NoCoreCall

Reset ==
    /\ \E seed \in Seeds, ks \in ShuffleSeqs(4) :
          env' = ResetEnv(env, seed, ks)
    /\ plays' = 0
    /\ invalid' = 0
    /\ UNCHANGED <<env2, call, deck_obj, deck_call, registry, reg_call,
                 infos, decks, core_call>>

Step ==
    /\ ~env.deck_none
    /\ env.error = "none"
    /\ \E action \in Actions, ks \in RefillShuffles(env) :
          /\ Plays(env, action) \/ invalid < MaxInvalid
          /\ env' = StepEnv(env, action, ks)
          /\ plays' = IF Plays(env, action) THEN plays + 1 ELSE plays
          /\ invalid' = IF Plays(env, action) THEN invalid ELSE invalid + 1
    /\ UNCHANGED <<env2, call, deck_obj, deck_call, registry, reg_call,
                 infos, decks, core_call>>

Next == Reset \/ Step

Spec == Init /\ [][Next]_vars

(***************************************************************************)
(* Whole games: the caller resets the environment before the first game    *)
(* and after a game that has run out of cards, and steps it in between.    *)
(***************************************************************************)
GameReset ==
    /\ env.deck_none \/ (env.deck = << >> /\ AllHandsEmpty(env))
    /\ Reset

GameNext == GameReset \/ Step

SpecGame == Init /\ [][GameNext]_vars

(***************************************************************************)
(* Two environments run side by side: both are reset with the same seed    *)
(* and stepped with the same action.  Each draws its shuffles from         *)
(* random.shuffle, whose generator reset(seed) does not seed.              *)
(***************************************************************************)
RunsReset ==
    /\ \E seed \in Seeds, ks \in ShuffleSeqs(4), ks2 \in ShuffleSeqs(4) :
          /\ env' = ResetEnv(env, seed, ks)
          /\ env2' = ResetEnv(env2, seed, ks2)
    /\ plays' = 0
    /\ invalid' = 0
    /\ UNCHANGED <<call, deck_obj, deck_call, registry, reg_call,
                 infos, decks, core_call>>

RunsStep ==
    /\ ~env.deck_none /\ ~env2.deck_none
    /\ env.error = "none" /\ env2.error = "none"
    /\ plays < MaxRunPlays
    /\ \E action \in Actions, ks \in RefillShuffles(env), ks2 \in RefillShuffles(env2) :
          /\ Plays(env, action) \/ invalid < MaxInvalid
          /\ env' = StepEnv(env, action, ks)
          /\ env2' = StepEnv(env2, action, ks2)
          /\ plays' = IF Plays(env, action) THEN plays + 1 ELSE plays
          /\ invalid' = IF Plays(env, action) THEN invalid ELSE invalid + 1
    /\ UNCHANGED <<call, deck_obj, deck_call, registry, reg_call,
                 infos, decks, core_call>>

RunsNext == RunsReset \/ RunsStep

SpecRuns == Init /\ [][RunsNext]_vars

(***************************************************************************)
(* The capture resolver on its own: a played card and a table of at most   *)
(* MaxTable other cards, all distinct as the cards of a deck are.  The     *)
(* resolver reads the value of a card and never its suit, so a table is    *)
(* given by its values: the played card is of the first suit and each      *)
(* table card of the first suit its value has not yet taken.               *)
(***************************************************************************)
TableValues(n) == UNION {[1..k -> Range(values_map)] : k \in 0..n}

SuitOf(vs, i, played_value) ==
    Cardinality({j \in 1..(i - 1) : vs[j] = vs[i]})
        + (IF vs[i] = played_value THEN 1 ELSE 0)

TableOf(vs, played_value) ==
    [i \in 1..Len(vs) |-> Card(vs[i], SuitOf(vs, i, played_value))]

ResolverInit ==
    /\ env = NewEnv
    /\ plays = 0
    /\ invalid = 0
    /\ env2 = NewEnv
    /\ \E v \in Range(values_map), vs \in TableValues(MaxTable) :
          /\ Range(TableOf(vs, v)) \subseteq Cards
          /\ call = [played_card |-> Card(v, 0),
                     current_table_cards |-> TableOf(vs, v),
                     result |-> NoneResult, done |-> FALSE]
    /\ deck_obj = NoDeck
    /\ deck_call = NoDeckCall
    /\ registry = Core_CARD_SYSTEMS
    /\ reg_call = NoRegCall
    /\ infos = NoInfos
    /\ decks = NoDecks
    /\ core_call = NoCoreCall

Resolve ==
    /\ ~call.done
    /\ call' = [call EXCEPT
                  !.result = FindBestCaptureCombination(call.played_card,
                                                        call.current_table_cards),
                  !.done = TRUE]
    /\ UNCHANGED <<env, plays, invalid, env2, deck_obj, deck_call, registry, reg_call,
                 infos, decks, core_call>>

ResolverNext == Resolve

SpecResolver == ResolverInit /\ [][ResolverNext]_vars

(***************************************************************************)
(* A Deck object on its own: built empty or as a full new deck, sorted or  *)
(* not, of either card system, and then drawn from, appended to and        *)
(* removed from, MaxDeckCalls times at most.  The cards passed to append   *)
(* and remove are single cards and lists of two, out of the lowest and the *)
(* highest card of the deck's system and the lowest card of the other.     *)
(***************************************************************************)
LowestCard(key) == SystemCard(CARD_SYSTEMS[key].values_map[1], 0, key)

HighestCard(key) ==
    SystemCard(CARD_SYSTEMS[key].values_map[Len(CARD_SYSTEMS[key].values_map)],
               CARD_SYSTEMS[key].num_suits - 1, key)

ArgCards(d) ==
    {LowestCard(d.card_system_key), HighestCard(d.card_system_key)}
        \cup {LowestCard(key) : key \in SystemKeys \ {d.card_system_key}}

\* a list that starts with a card of another system fails as that card alone does
ArgLists(d) ==
    {<<c>> : c \in ArgCards(d)}
        \cup {<<c1, c2>> : c1 \in {c \in ArgCards(d) : c.card_system_key = d.card_system_key},
                            c2 \in ArgCards(d)}

\* the permutation update_sort takes at the end of the call: the random
\* generator, in the state the construction of the deck left it in, yields
\* the permutations one after the other
NextShuffle == ((deck_call.rng + deck_call.calls) % ShuffleChoices) + 1

DeckInit ==
    /\ env = NewEnv
    /\ plays = 0
    /\ invalid = 0
    /\ env2 = NewEnv
    /\ call = NoCall
    /\ \E new \in BOOLEAN, sorted_deck \in BOOLEAN, key \in SystemKeys :
       \E k \in IF sorted_deck THEN {1} ELSE 1..ShuffleChoices :
          LET r == Deck_init(<< >>, new, sorted_deck, key, k)
          IN  /\ deck_obj = r.deck
              /\ deck_call = DeckCall("__init__", 0, << >>, r.deck, r, 0, k)
    /\ registry = Core_CARD_SYSTEMS
    /\ reg_call = NoRegCall
    /\ infos = NoInfos
    /\ decks = NoDecks
    /\ core_call = NoCoreCall

Draw ==
    /\ deck_call.calls < MaxDeckCalls
    /\ \E num_cards \in -1..(Len(deck_obj.cards) + 1) :
          LET r == Deck_draw(deck_obj, num_cards, NextShuffle)
          IN  /\ deck_obj' = r.deck
              /\ deck_call' = DeckCall("draw", num_cards, << >>, deck_obj, r,
                                       deck_call.calls + 1, deck_call.rng)
    /\ UNCHANGED <<env, plays, invalid, env2, call, registry, reg_call,
                 infos, decks, core_call>>

Remove ==
    /\ deck_call.calls < MaxDeckCalls
    /\ \E cards_to_remove \in ArgLists(deck_obj) :
          LET r == Deck_remove(deck_obj, cards_to_remove, NextShuffle)
          IN  /\ deck_obj' = r.deck
              /\ deck_call' = DeckCall("remove", 0, cards_to_remove, deck_obj, r,
                                       deck_call.calls + 1, deck_call.rng)
    /\ UNCHANGED <<env, plays, invalid, env2, call, registry, reg_call,
                 infos, decks, core_call>>

AppendCards ==
    /\ deck_call.calls < MaxDeckCalls
    /\ \E cards_to_add \in ArgLists(deck_obj) :
          LET r == Deck_append(deck_obj, cards_to_add, NextShuffle)
          IN  /\ deck_obj' = r.deck
              /\ deck_call' = DeckCall("append", 0, cards_to_add, deck_obj, r,
                                       deck_call.calls + 1, deck_call.rng)
    /\ UNCHANGED <<env, plays, invalid, env2, call, registry, reg_call,
                 infos, decks, core_call>>

\* Deck.from_state(deck.state, deck.card_system_key): a class method, which
\* builds another Deck and leaves this one as it is
FromState ==
    /\ deck_call.op # "from_state"
    /\ LET r == Deck_from_state(deck_obj.state, deck_obj.card_system_key)
       IN  deck_call' = DeckCall("from_state", 0, << >>, deck_obj,
                                 CallResult(r.deck, r.deck.cards, r.raised),
                                 deck_call.calls, deck_call.rng)
    /\ UNCHANGED <<env, plays, invalid, env2, call, deck_obj, registry, reg_call,
                 infos, decks, core_call>>

DeckNext == Draw \/ Remove \/ AppendCards \/ FromState

SpecDeck == DeckInit /\ [][DeckNext]_vars

(***************************************************************************)
(* The registry on its own: the caller registers configs under a key that  *)
(* is taken and under a free one, and builds cards of the registered       *)
(* systems.  A config has one or two suits and one or two distinct values  *)
(* out of 1..MaxCoreValue, in any order; its deck_size is the product of   *)
(* the two lengths or one more; it may miss any of its fields.             *)
(***************************************************************************)
RegKeys == {"italian_40", "custom"}

ValueLists ==
    {<<a>> : a \in 1..MaxCoreValue}
        \cup {<<p[1], p[2]>> : p \in {q \in (1..MaxCoreValue) \X (1..MaxCoreValue) :
                                       q[1] # q[2]}}

SuitLists == {<<"Cuori">>, <<"Cuori", "Picche">>}

FullConfigs ==
    {[suits |-> su, values |-> va, deck_size |-> Len(su) * Len(va) + more] :
        su \in SuitLists, va \in ValueLists, more \in 0..1}

\* config without the fields of drop
Without(config, drop) == [f \in (DOMAIN config) \ drop |-> config[f]]

Configs ==
    FullConfigs
        \cup {Without([suits |-> <<"Cuori">>, values |-> <<1>>, deck_size |-> 1], drop) :
                 drop \in (SUBSET Range(RequiredFields)) \ {{}}}

Register ==
    /\ \E key \in RegKeys, config \in Configs :
          LET r == Core_register_card_system(registry, key, config)
          IN  /\ registry' = r.systems
              /\ reg_call' = RegCall("register", key, config, NoRegCall.card, registry,
                                     0, r.raised)
    /\ UNCHANGED <<env, plays, invalid, env2, call, deck_obj, deck_call,
                 infos, decks, core_call>>

\* Card(value, suit, key).to_index() for a key of the registry
ToIndex ==
    /\ \E key \in DOMAIN registry, value \in 0..(MaxCoreValue + 1), suit \in -1..NumSuits :
          LET raised == Core_Card_post_init(registry, value, suit, key)
              card   == SystemCard(value, suit, key)
          IN  reg_call' = RegCall("to_index", key, registry[key], card, registry,
                                  IF raised = NoRaise THEN Core_to_index(registry, card)
                                  ELSE 0,
                                  raised)
    /\ UNCHANGED <<env, plays, invalid, env2, call, deck_obj, deck_call, registry,
                 infos, decks, core_call>>

RegistryNext == Register \/ ToIndex

SpecRegistry == Init /\ [][RegistryNext]_vars

(***************************************************************************)
(* The environment with its infos dictionaries: the resets and steps of    *)
(* whole games, and what they write to infos.                              *)
(***************************************************************************)
InfoReset ==
    /\ env.deck_none \/ (env.deck = << >> /\ AllHandsEmpty(env))
    /\ \E seed \in Seeds, ks \in ShuffleSeqs(4) :
          env' = ResetEnv(env, seed, ks)
    /\ infos' = ResetInfos(infos)
    /\ plays' = 0
    /\ invalid' = 0
    /\ UNCHANGED <<env2, call, deck_obj, deck_call, registry, reg_call,
                   decks, core_call>>

InfoStep ==
    /\ ~env.deck_none
    /\ env.error = "none"
    /\ \E action \in Actions, ks \in RefillShuffles(env) :
          /\ Plays(env, action) \/ invalid < MaxInvalid
          /\ env' = StepEnv(env, action, ks)
          /\ infos' = StepInfos(env, infos, action, ks)
          /\ plays' = IF Plays(env, action) THEN plays + 1 ELSE plays
          /\ invalid' = IF Plays(env, action) THEN invalid ELSE invalid + 1
    /\ UNCHANGED <<env2, call, deck_obj, deck_call, registry, reg_call,
                   decks, core_call>>

InfoNext == InfoReset \/ InfoStep

SpecInfos == Init /\ [][InfoNext]_vars

(***************************************************************************)
(* Decks of toulouse/core.py: deck1 is a new deck of italian_40, deck2 an  *)
(* empty deck of either predefined system; their caller draws, appends,    *)
(* removes, shuffles, sorts and resets, MaxCoreCalls calls in all.         *)
(***************************************************************************)
CoreDeckInit ==
    /\ env = NewEnv
    /\ plays = 0
    /\ invalid = 0
    /\ env2 = NewEnv
    /\ call = NoCall
    /\ deck_obj = NoDeck
    /\ deck_call = NoDeckCall
    /\ registry = Core_CARD_SYSTEMS
    /\ reg_call = NoRegCall
    /\ infos = NoInfos
    /\ \E key \in DOMAIN Core_CARD_SYSTEMS :
          decks = [name \in DeckNames |->
                      IF name = "deck1"
                      THEN Core_Deck_new_deck(Core_CARD_SYSTEMS, "italian_40")
                      ELSE Core_Deck(key)]
    /\ core_call = NoCoreCall

\* the cards the caller passes: the first card and the last card of a new
\* deck, and the first card of the other system
CoreArgCards ==
    {SystemCard(values_map[1], 0, "italian_40"),
     SystemCard(values_map[Len(values_map)], NumSuits - 1, "italian_40"),
     SystemCard(values_map[1], 0, "spanish_40")}

CoreOthers == <<env, plays, invalid, env2, call, deck_obj, deck_call, registry,
                reg_call, infos>>

\* the call op left deck name as r.deck
CoreDone(op, name, card, n, r) ==
    /\ decks' = [decks EXCEPT ![name] = r.deck]
    /\ core_call' = CoreCall(op, name, card, n, r.ret, r.raised, decks,
                             core_call.calls + 1)
    /\ UNCHANGED CoreOthers

CoreDraw ==
    /\ core_call.calls < MaxCoreCalls
    /\ \E name \in DeckNames, n \in -1..2 :
          CoreDone("draw", name, NoCoreCall.card, n, Core_Deck_draw(decks[name], n))

CoreAppend ==
    /\ core_call.calls < MaxCoreCalls
    /\ \E name \in DeckNames, card \in CoreArgCards :
          CoreDone("append", name, card, 0, Core_Deck_append(decks[name], card))

CoreRemove ==
    /\ core_call.calls < MaxCoreCalls
    /\ \E name \in DeckNames, card \in CoreArgCards :
          CoreDone("remove", name, card, 0, Core_Deck_remove(decks[name], card))

CoreShuffle ==
    /\ core_call.calls < MaxCoreCalls
    /\ \E name \in DeckNames, k \in 1..ShuffleChoices :
          CoreDone("shuffle", name, NoCoreCall.card, 0,
                   Core_Deck_shuffle(decks[name], k))

CoreSort ==
    /\ core_call.calls < MaxCoreCalls
    /\ \E name \in DeckNames :
          CoreDone("sort", name, NoCoreCall.card, 0,
                   Core_Deck_sort(registry, decks[name]))

CoreReset ==
    /\ core_call.calls < MaxCoreCalls
    /\ \E name \in DeckNames :
          CoreDone("reset", name, NoCoreCall.card, 0,
                   Core_Deck_reset(registry, decks[name]))

CoreDeckNext ==
    CoreDraw \/ CoreAppend \/ CoreRemove \/ CoreShuffle \/ CoreSort \/ CoreReset

SpecCoreDeck == CoreDeckInit /\ [][CoreDeckNext]_vars

\* the caller also moves cards from one deck to the other
CoreMoveCardTo ==
    /\ core_call.calls < MaxCoreCalls
    /\ \E name \in DeckNames, card \in CoreArgCards :
          LET other == CHOOSE o \in DeckNames : o # name
              r     == Core_Deck_move_card_to(decks[name], card, decks[other])
          IN  /\ decks' = [decks EXCEPT ![name] = r.self, ![other] = r.other_deck]
              /\ core_call' = CoreCall("move_card_to", name, card, 0, << >>,
                                       r.raised, decks, core_call.calls + 1)
    /\ UNCHANGED CoreOthers

CoreMoveNext == CoreDeckNext \/ CoreMoveCardTo

SpecCoreMove == CoreDeckInit /\ [][CoreMoveNext]_vars

(***************************************************************************)
(* Properties of the environment.                                          *)
(***************************************************************************)
Other(a) == CHOOSE b \in Agents : b # a

Player0 == possible_agents[1]

Player1 == possible_agents[2]

\* the six zones, one after the other
AllZones(e) ==
    e.deck \o e.players_hands[Player0] \o e.players_hands[Player1]
           \o e.table_cards \o e.capture_pile[Player0] \o e.capture_pile[Player1]

WasReset == ~env.deck_none

\* C1: after reset and any steps, the six zones hold DECK_SIZE cards in all and
\* no card twice (so no card is in two zones): together they are the full deck.
CardConservation ==
    WasReset =>
        /\ Len(env.deck) + Len(env.players_hands[Player0]) + Len(env.players_hands[Player1])
             + Len(env.table_cards) + Len(env.capture_pile[Player0])
             + Len(env.capture_pile[Player1]) = DECK_SIZE
        /\ Cardinality(Range(AllZones(env))) = DECK_SIZE
        /\ Range(AllZones(env)) = Cards

\* a game with a capture, an invalid action and a refill behind it
CardConservationWitness ==
    /\ WasReset
    /\ invalid > 0
    /\ plays > Len(possible_agents) * MAX_HAND_SIZE
    /\ env.capture_pile[Player0] # << >>
    /\ env.capture_pile[Player1] # << >>
    /\ env.table_cards # << >>

\* a step that took the invalid-action branch
InvalidStep == invalid' = invalid + 1

\* a step that played a card
PlayStep == plays' = plays + 1

\* C2: an invalid action leaves the deck, the hands, the table, the capture
\* piles, the scopa counts and last_capturer as they were, gives the acting
\* player the reward -1, and passes the turn to the other player.
InvalidActionFrame ==
    [][InvalidStep =>
         /\ env'.deck = env.deck
         /\ env'.players_hands = env.players_hands
         /\ env'.table_cards = env.table_cards
         /\ env'.capture_pile = env.capture_pile
         /\ env'.scopa_counts = env.scopa_counts
         /\ env'.last_capturer = env.last_capturer
         /\ env'.rewards[env.agent_selection] = -1
         /\ env'.agent_selection = Other(env.agent_selection)]_vars

\* an invalid action was taken by a player who held cards
InvalidActionWitness ==
    /\ invalid > 0
    /\ \E a \in Agents :
          /\ env.rewards[a] = -1
          /\ env.players_hands[a] # << >>
          /\ env.agent_selection = Other(a)

\* C3: no reset and no step ends in an exception.
StepNeverFails == env.error = "none"

\* a game that went through invalid actions, captures and a refill without error
StepNeverFailsWitness ==
    /\ env.error = "none"
    /\ invalid > 0
    /\ plays > Len(possible_agents) * MAX_HAND_SIZE
    /\ env.last_capturer # NoAgent

GameEnd(e) == (~e.deck_none) /\ e.deck = << >> /\ AllHandsEmpty(e)

\* C4: the two termination flags are equal, and they are set exactly when the
\* deck is empty and both hands are empty.
TerminationCondition ==
    WasReset =>
        /\ env.terminations[Player0] = env.terminations[Player1]
        /\ env.terminations[Player0] <=> GameEnd(env)

\* C5: a game in which every action was valid is terminated once
\* DECK_SIZE - INITIAL_TABLE_CARDS cards were played.
GameTerminates ==
    (WasReset /\ invalid = 0 /\ plays = DECK_SIZE - INITIAL_TABLE_CARDS) =>
        /\ GameEnd(env)
        /\ \A a \in Agents : env.terminations[a]

ScoreSum(e) == CalculateScore(e)[Player0] + CalculateScore(e)[Player1]

\* the game is over and every card is in a capture pile
AllCaptured(e) == GameEnd(e) /\ e.table_cards = << >> /\ e.last_capturer # NoAgent

\* C6 as claimed: at the end of a game in which every card was captured, the
\* two final scores add up to DECK_SIZE.
FinalScoreSum == AllCaptured(env) => ScoreSum(env) = DECK_SIZE

\* C6 as amended: at the end of a game in which every card was captured, the
\* two final scores add up to DECK_SIZE plus the two scopa counts.
FinalScoreSumWithScopas ==
    AllCaptured(env) =>
        ScoreSum(env) = DECK_SIZE + env.scopa_counts[Player0] + env.scopa_counts[Player1]

FinalScoreSumWitness ==
    /\ AllCaptured(env)
    /\ plays = DECK_SIZE - INITIAL_TABLE_CARDS
    /\ env.capture_pile[Player0] # << >>
    /\ env.capture_pile[Player1] # << >>

\* the card a play step took from the acting player's hand
PlayedCard(a) ==
    CHOOSE c \in Range(env.players_hands[a]) : c \notin Range(env'.players_hands[a])

\* the play step made a capture that took every card of the table
CaptureEmptiedTable(a) ==
    /\ PlayStep
    /\ env.table_cards # << >>
    /\ LET r == FindBestCaptureCombination(PlayedCard(a), env.table_cards)
       IN  Truthy(r) /\ Range(r.cards) = Range(env.table_cards)

\* the acting player's reward of the step, without the final score added to
\* it by a step that ends the game
StepReward(a) ==
    IF env'.terminations[a] /\ ~env.terminations[a]
    THEN env'.rewards[a] - CalculateScore(env')[a]
    ELSE env'.rewards[a]

\* C7: a step raises the acting player's scopa count by one, and gives the step
\* reward +1, exactly when it made a capture that emptied the table; it never
\* changes it otherwise, and never changes the other player's count.
ScopaTrigger ==
    [][(PlayStep \/ InvalidStep) =>
         LET a == env.agent_selection
         IN  /\ env'.scopa_counts[a] =
                  env.scopa_counts[a] + (IF CaptureEmptiedTable(a) THEN 1 ELSE 0)
             /\ env'.scopa_counts[Other(a)] = env.scopa_counts[Other(a)]
             /\ (StepReward(a) = 1) <=> CaptureEmptiedTable(a)]_vars

\* a scopa was just made
ScopaTriggerWitness ==
    /\ plays > 0
    /\ env.table_cards = << >>
    /\ \E a \in Agents :
          /\ env.scopa_counts[a] > 0
          /\ env.rewards[a] = 1
          /\ env.last_capturer = a

(***************************************************************************)
(* Properties of the capture resolver.                                     *)
(***************************************************************************)
DirectMatches(c, t) == {i \in 1..Len(t) : t[i].value = c.value}

SumPairs(c, t) ==
    {p \in (1..Len(t)) \X (1..Len(t)) : p[1] < p[2] /\ t[p[1]].value + t[p[2]].value = c.value}

\* C8: when a table card has the played card's value, the result is the one
\* earliest such card of the table.
DirectMatchPriority ==
    LET c == call.played_card
        t == call.current_table_cards
    IN  (call.done /\ DirectMatches(c, t) # {}) =>
            /\ ~call.result.is_none
            /\ Len(call.result.cards) = 1
            /\ \E i \in DirectMatches(c, t) :
                  /\ call.result.cards[1] = t[i]
                  /\ \A j \in DirectMatches(c, t) : i <= j

\* two direct matches, neither the first table card, beside a pair of the same sum
DirectMatchPriorityWitness ==
    /\ call.done
    /\ Cardinality(DirectMatches(call.played_card, call.current_table_cards)) >= 2
    /\ 1 \notin DirectMatches(call.played_card, call.current_table_cards)
    /\ SumPairs(call.played_card, call.current_table_cards) # {}

\* C9: when no table card has the played card's value, the result is the first
\* pair of table cards, in the lexicographic order of their positions, whose
\* values add up to the played value, and None exactly when there is no such
\* pair; the result never holds more than two cards.
PairCapture ==
    LET c == call.played_card
        t == call.current_table_cards
        P == SumPairs(c, t)
    IN  (call.done /\ DirectMatches(c, t) = {}) =>
            /\ call.result.is_none <=> P = {}
            /\ Len(call.result.cards) <= 2
            /\ P # {} =>
                 \E p \in P :
                    /\ call.result.cards = <<t[p[1]], t[p[2]]>>
                    /\ \A q \in P : p[1] < q[1] \/ (p[1] = q[1] /\ p[2] <= q[2])

\* two pairs of the sum, of which the first in lexicographic order is not the
\* first by its second position
PairCaptureWitness ==
    /\ call.done
    /\ DirectMatches(call.played_card, call.current_table_cards) = {}
    /\ <<1, 4>> \in SumPairs(call.played_card, call.current_table_cards)
    /\ <<2, 3>> \in SumPairs(call.played_card, call.current_table_cards)
    /\ call.result.cards = <<call.current_table_cards[1], call.current_table_cards[4]>>

(***************************************************************************)
(* Two runs.                                                               *)
(***************************************************************************)
\* C10: two environments reset with the same seed and stepped with the same
\* actions are in the same state.
SameSeedSameStates == env2 = env

(***************************************************************************)
(* Turns and reset.                                                        *)
(***************************************************************************)
\* the state is the one a reset has just left
JustReset == WasReset /\ plays = 0 /\ invalid = 0

\* C11: reset makes player_0 the active player, and every step that does not
\* end the game, of a valid or an invalid action, makes the other player than
\* the one who acted the active player.
RoundRobinTurns ==
    [][/\ (plays' = 0 /\ invalid' = 0) => env'.agent_selection = Player0
       /\ ((PlayStep \/ InvalidStep) /\ ~env'.game_over) =>
              env'.agent_selection = Other(env.agent_selection)]_vars

\* player_1 has just taken an invalid action, after plays, and player_0 is active
RoundRobinTurnsWitness ==
    /\ plays >= 2
    /\ invalid > 0
    /\ env.rewards[Player1] = -1
    /\ env.agent_selection = Player0
    /\ ~env.game_over

\* C12: reset leaves each hand with MAX_HAND_SIZE cards, the table with
\* INITIAL_TABLE_CARDS cards, the deck with the rest, the capture piles empty,
\* the scopa counts 0, last_capturer unset, no player terminated, all rewards
\* 0 and player_0 active, whatever the state it is called in.
ResetPostcondition ==
    JustReset =>
        /\ \A a \in Agents :
              /\ Len(env.players_hands[a]) = MAX_HAND_SIZE
              /\ env.capture_pile[a] = << >>
              /\ env.scopa_counts[a] = 0
              /\ ~env.terminations[a]
              /\ env.rewards[a] = 0
        /\ Len(env.table_cards) = INITIAL_TABLE_CARDS
        /\ Len(env.deck) =
              DECK_SIZE - Len(possible_agents) * MAX_HAND_SIZE - INITIAL_TABLE_CARDS
        /\ env.last_capturer = NoAgent
        /\ env.agent_selection = Player0

\* a reset has dealt the hands and the table
ResetPostconditionWitness ==
    /\ JustReset
    /\ env.error = "none"
    /\ Len(env.table_cards) = INITIAL_TABLE_CARDS
    /\ \A a \in Agents : Len(env.players_hands[a]) = MAX_HAND_SIZE

(***************************************************************************)
(* Properties of the Deck class.                                           *)
(***************************************************************************)
Before == deck_call.before

Succeeded == deck_call.raised = NoRaise

\* the bit vector of the cards of d
BitsOf(d) ==
    [i \in 1..CARD_SYSTEMS[d.card_system_key].deck_size |->
        IF \E c \in Range(d.cards) : calculate_index(c) = i - 1 THEN 1 ELSE 0]

\* C13: draw(n) with 0 <= n <= len(deck) returns the last n cards of the deck,
\* and the deck keeps exactly its other cards.
DrawReturnsLastN ==
    LET n == deck_call.num_cards
        m == Len(Before.cards)
    IN  (deck_call.op = "draw" /\ 0 <= n /\ n <= m) =>
            /\ Succeeded
            /\ deck_call.ret = SubSeq(Before.cards, m - n + 1, m)
            /\ Len(deck_obj.cards) = m - n
            /\ Range(deck_obj.cards) = Range(Before.cards) \ Range(deck_call.ret)

\* C14: draw(n) with n < 0 or n > len(deck) raises, returns no card, and leaves
\* the cards and the state of the deck as they were.
DrawFailure ==
    LET n == deck_call.num_cards
    IN  (deck_call.op = "draw" /\ (n < 0 \/ n > Len(Before.cards))) =>
            /\ deck_call.raised = "ValueError"
            /\ deck_call.ret = << >>
            /\ deck_obj.cards = Before.cards
            /\ deck_obj.state = Before.state

\* more cards asked for than a deck that is not empty holds
DrawFailureWitness ==
    /\ deck_call.op = "draw"
    /\ deck_call.num_cards > Len(Before.cards)
    /\ Before.cards # << >>
    /\ deck_call.raised = "ValueError"

Ascending(cards) ==
    \A i \in 1..Len(cards), j \in 1..Len(cards) :
        i < j => calculate_index(cards[i]) < calculate_index(cards[j])

\* C18: the deck that from_state builds from the state of a deck holds the
\* cards of that deck, in ascending order of their indices.
StateRoundTrip ==
    deck_call.op = "from_state" =>
        /\ Succeeded
        /\ Range(deck_call.ret) = Range(deck_obj.cards)
        /\ Ascending(deck_call.ret)

\* the vector with the one bit of index i set
UnitState(key, i) == [p \in 1..CARD_SYSTEMS[key].deck_size |-> IF p = i + 1 THEN 1 ELSE 0]

\* C19: in either card system, calculate_index maps the cards one-to-one onto
\* 0..deck_size - 1, and the inverse from_state computes gives back the card of
\* every index: seen on the full new deck of each system.
IndexBijection ==
    (deck_call.op = "__init__" /\ deck_obj.cards # << >>) =>
        LET key   == deck_obj.card_system_key
            size  == CARD_SYSTEMS[key].deck_size
            cards == Range(deck_obj.cards)
        IN  /\ cards = SystemCards(key)
            /\ Cardinality(cards) = size
            /\ {calculate_index(c) : c \in cards} = 0..(size - 1)
            /\ \A c \in cards :
                  FromStateCards(UnitState(key, calculate_index(c)), key, 0) = <<c>>
            /\ \A i \in 0..(size - 1) :
                  LET built == FromStateCards(UnitState(key, i), key, 0)
                  IN  Len(built) = 1 /\ built[1] \in cards /\ calculate_index(built[1]) = i

\* a full new deck of the system with more values has just been built
IndexBijectionWitness ==
    /\ deck_call.op = "__init__"
    /\ Len(deck_obj.cards) = CARD_SYSTEMS["standard_52"].deck_size
    /\ deck_obj.card_system_key = "standard_52"

\* C20: after a successful draw, append or remove, the state of the deck has
\* deck_size bits, and bit i is 1 exactly when a card of index i is in the deck.
StateProjection ==
    (deck_call.op \in {"draw", "append", "remove"} /\ Succeeded) =>
        /\ Len(deck_obj.state) = CARD_SYSTEMS[deck_obj.card_system_key].deck_size
        /\ \A i \in 0..(Len(deck_obj.state) - 1) :
              deck_obj.state[i + 1] = 1 <=>
                  \E c \in Range(deck_obj.cards) : calculate_index(c) = i
        /\ \A i \in 1..Len(deck_obj.state) : deck_obj.state[i] \in {0, 1}

\* a call has succeeded on a deck whose call before had failed half way and
\* left the state behind the cards
StateProjectionWitness ==
    /\ deck_call.op \in {"draw", "append", "remove"}
    /\ Succeeded
    /\ deck_call.calls >= 2
    /\ Before.state # BitsOf(Before)
    /\ deck_obj.cards # << >>

(***************************************************************************)
(* Properties of the steps of the environment.                             *)
(***************************************************************************)
\* the active player
Active == env.agent_selection

\* the active player can act: the environment was reset, is not in error and
\* the player is not terminated
CanAct == WasReset /\ env.error = "none" /\ ~env.terminations[Active]

\* the step gave the agent the reward and no more of the invalid action
ScoredInvalid(e, a) == e.rewards[a] = -1

\* action is an index of the mask whose bit is 1
MaskAllows(mask, action) ==
    action \in 0..(Len(mask) - 1) /\ mask[action + 1] = 1

\* C23: for the active player, not terminated, the action_mask of observe has
\* MAX_HAND_SIZE bits, bit i is 1 exactly for i < len(hand), and step(action)
\* is scored as an invalid action exactly for the actions that are not an
\* index of a bit 1.
ActionMaskContract ==
    CanAct =>
        LET mask == Observe_action_mask(env, Active)
        IN  /\ Len(mask) = MAX_HAND_SIZE
            /\ \A i \in 0..(MAX_HAND_SIZE - 1) :
                  /\ mask[i + 1] \in {0, 1}
                  /\ mask[i + 1] = 1 <=> i < Len(env.players_hands[Active])
            /\ \A action \in Actions, ks \in RefillShuffles(env) :
                  ScoredInvalid(StepEnv(env, action, ks), Active)
                      <=> ~MaskAllows(mask, action)

\* the active player holds two cards, so that the mask has bits of both kinds,
\* after an invalid action of the other player and a capture
ActionMaskContractWitness ==
    /\ CanAct
    /\ Observe_action_mask(env, Active) = <<1, 1, 0>>
    /\ invalid > 0
    /\ ScoredInvalid(env, Other(Active))
    /\ env.last_capturer # NoAgent

\* the step leaves both hands empty before the refill and the deck holds the
\* cards of a deal
RefillDue(a) ==
    /\ Len(env.players_hands[a]) = 1
    /\ env.players_hands[Other(a)] = << >>
    /\ Len(env.deck) >= Len(possible_agents) * MAX_HAND_SIZE

\* the table holds a capture for the card: a card of its value, or two cards
\* whose values add up to it
CaptureExists(c, t) == DirectMatches(c, t) # {} \/ SumPairs(c, t) # {}

\* the cards the step added to the capture pile of a
Gained(a) ==
    SubSeq(env'.capture_pile[a], Len(env.capture_pile[a]) + 1, Len(env'.capture_pile[a]))

\* C24: a valid play takes the played card out of the acting player's hand.
\* If the table holds a capture, the played card and then the captured table
\* cards (one or two) go to the end of the acting player's capture pile, leave
\* the table, and last_capturer becomes the acting player.  If it holds none,
\* the played card goes to the end of the table, the reward is 0, and the
\* pile and last_capturer stay.  The other player's pile stays and, unless the
\* step refills the hands, so do the other player's hand and the deck.
PlayEffect ==
    [][PlayStep =>
         LET a    == env.agent_selection
             o    == Other(env.agent_selection)
             c    == PlayedCard(env.agent_selection)
             hand == env.players_hands[env.agent_selection]
         IN  /\ \E pos \in 1..Len(hand) :
                   /\ hand[pos] = c
                   /\ ~RefillDue(a) => env'.players_hands[a] = RemoveAt(hand, pos)
             /\ IF CaptureExists(c, env.table_cards)
                THEN /\ Len(Gained(a)) \in {2, 3}
                     /\ SubSeq(env.capture_pile[a], 1, Len(env.capture_pile[a]))
                           = SubSeq(env'.capture_pile[a], 1, Len(env.capture_pile[a]))
                     /\ Gained(a)[1] = c
                     /\ Range(Gained(a)) \ {c} \subseteq Range(env.table_cards)
                     /\ Range(env'.table_cards) = Range(env.table_cards) \ Range(Gained(a))
                     /\ Len(env'.table_cards) = Len(env.table_cards) - (Len(Gained(a)) - 1)
                     /\ env'.last_capturer = a
                ELSE /\ env'.table_cards = Append(env.table_cards, c)
                     /\ env'.rewards[a] = 0
                     /\ env'.capture_pile[a] = env.capture_pile[a]
                     /\ env'.last_capturer = env.last_capturer
             /\ env'.capture_pile[o] = env.capture_pile[o]
             /\ ~RefillDue(a) =>
                   /\ env'.players_hands[o] = env.players_hands[o]
                   /\ env'.deck = env.deck]_vars

\* the player who has just played has captured two table cards with the card
\* played, without a scopa, in a game in which other cards were played before
PlayEffectWitness ==
    /\ WasReset
    /\ env.last_capturer = Other(Active)
    /\ Len(env.capture_pile[Other(Active)]) = 3
    /\ env.rewards[Other(Active)] = 0
    /\ Len(env.table_cards) + Len(env.capture_pile[Active]) > INITIAL_TABLE_CARDS - 2

\* C25: once the game has ended (the deck and both hands are empty), the
\* cards left on the table were moved to last_capturer's pile if last_capturer
\* is set, so that the table is empty and the two piles hold DECK_SIZE cards;
\* if it is not set, the cards are on the table and in no pile.
EndOfGameSweep ==
    GameEnd(env) =>
        IF env.last_capturer # NoAgent
        THEN /\ env.table_cards = << >>
             /\ Len(env.capture_pile[Player0]) + Len(env.capture_pile[Player1]) = DECK_SIZE
        ELSE /\ Len(env.table_cards) = DECK_SIZE
             /\ \A a \in Agents : env.capture_pile[a] = << >>

\* the step is the one that ends the game: it leaves the deck and both hands
\* empty, and they were not before it
EndingStep == PlayStep /\ ~GameEnd(env) /\ GameEnd(env')

\* C26: the step that ends the game gives each player the final score
\* len(capture pile) + scopa count, taken after the step, and gives the acting
\* player the reward of the last play (1 for a scopa, 0 otherwise) on top of
\* it; every other step gives the player who did not act the reward 0 and the
\* acting player a reward of -1, 0 or 1.
TerminalReward ==
    [][(PlayStep \/ InvalidStep) =>
         LET a == env.agent_selection
             o == Other(env.agent_selection)
             last_play == IF env'.scopa_counts[a] > env.scopa_counts[a] THEN 1 ELSE 0
         IN  IF EndingStep
             THEN /\ env'.rewards[o] = Len(env'.capture_pile[o]) + env'.scopa_counts[o]
                  /\ env'.rewards[a] = Len(env'.capture_pile[a]) + env'.scopa_counts[a]
                                         + last_play
             ELSE /\ env'.rewards[o] = 0
                  /\ env'.rewards[a] \in {-1, 0, 1}]_vars

\* both hands are empty once the step has played its card, or rejected its
\* action
HandsEmptyAfterPlay ==
    IF PlayStep
    THEN /\ Len(env.players_hands[env.agent_selection]) = 1
         /\ env.players_hands[Other(env.agent_selection)] = << >>
    ELSE AllHandsEmpty(env)

\* the step took cards from the deck
Dealt == env'.deck # env.deck

\* C27: a step deals from the deck exactly when, after the play, both hands
\* are empty and the deck holds len(possible_agents) * MAX_HAND_SIZE cards or
\* more; it then gives each player MAX_HAND_SIZE cards of the deck, which is
\* left with that many cards fewer; any other step leaves the deck as it was.
RoundRefill ==
    [][(PlayStep \/ InvalidStep) =>
         /\ Dealt <=> (/\ HandsEmptyAfterPlay
                       /\ Len(env.deck) >= Len(possible_agents) * MAX_HAND_SIZE)
         /\ Dealt =>
               /\ \A a \in Agents :
                     /\ Len(env'.players_hands[a]) = MAX_HAND_SIZE
                     /\ Range(env'.players_hands[a]) \subseteq Range(env.deck)
               /\ Len(env'.deck) = Len(env.deck) - Len(possible_agents) * MAX_HAND_SIZE
               /\ Range(env'.deck) \subseteq Range(env.deck)]_vars

\* the hands have just been refilled: the cards of the first deal were played
\* and each player holds MAX_HAND_SIZE cards again
RoundRefillWitness ==
    /\ WasReset
    /\ plays = Len(possible_agents) * MAX_HAND_SIZE
    /\ \A a \in Agents : Len(env.players_hands[a]) = MAX_HAND_SIZE
    /\ Len(env.deck) = DECK_SIZE - INITIAL_TABLE_CARDS
                          - 2 * Len(possible_agents) * MAX_HAND_SIZE

\* C28: a step taken when the game has ended (the deck and both hands are
\* empty, the state in which every player is terminated) changes nothing but
\* the turn: the zones, the scopa counts, the rewards and the termination
\* flags stay, and the turn passes to the other player.
TerminatedStepNoOp ==
    [][((PlayStep \/ InvalidStep) /\ GameEnd(env)) =>
         /\ env'.deck = env.deck
         /\ env'.players_hands = env.players_hands
         /\ env'.table_cards = env.table_cards
         /\ env'.capture_pile = env.capture_pile
         /\ env'.scopa_counts = env.scopa_counts
         /\ env'.last_capturer = env.last_capturer
         /\ env'.rewards = env.rewards
         /\ env'.terminations = env.terminations
         /\ env'.agent_selection = Other(env.agent_selection)]_vars

(***************************************************************************)
(* Properties of the registry and of Card.to_index (toulouse/core.py).     *)
(***************************************************************************)
\* the config holds every field and its deck_size is not the product
SizeMismatch(config) ==
    /\ FirstMissing(config) = 0
    /\ config["deck_size"] # Len(config["suits"]) * Len(config["values"])

\* C21: register_card_system(key, config) raises and leaves the registry as
\* it was if the key is registered already, if the config misses a required
\* field, or if its deck_size is not len(suits) * len(values).
RegisterContract ==
    (/\ reg_call.op = "register"
     /\ \/ reg_call.key \in DOMAIN reg_call.before
        \/ FirstMissing(reg_call.config) # 0
        \/ SizeMismatch(reg_call.config))
        => (reg_call.raised # NoRaise /\ registry = reg_call.before)

\* the cards Card.__post_init__ accepts for the system
ValidCoreCards(systems, key) ==
    {SystemCard(systems[key]["values"][i], suit, key) :
        i \in 1..Len(systems[key]["values"]),
        suit \in 0..(Len(systems[key]["suits"]) - 1)}

\* the deck_size of the system is len(suits) * len(values)
ProductSize(system) == system["deck_size"] = Len(system["suits"]) * Len(system["values"])

\* C22: for every registered card system whose deck_size is the product of
\* its two lengths, to_index() of a valid card is the position of its value in
\* values plus suit * len(values), and to_index is one-to-one from the valid
\* cards onto 0..deck_size - 1.
CanonicalIndex ==
    /\ (reg_call.op = "to_index" /\ reg_call.raised = NoRaise /\ ProductSize(reg_call.config))
          => /\ reg_call.index = ListIndex(reg_call.config["values"], reg_call.card.value)
                                   + reg_call.card.suit * Len(reg_call.config["values"])
             /\ reg_call.index \in 0..(reg_call.config["deck_size"] - 1)
    /\ \A key \in DOMAIN registry :
          ProductSize(registry[key]) =>
             /\ \A c1, c2 \in ValidCoreCards(registry, key) :
                   Core_to_index(registry, c1) = Core_to_index(registry, c2) => c1 = c2
             /\ {Core_to_index(registry, c) : c \in ValidCoreCards(registry, key)}
                   = 0..(registry[key]["deck_size"] - 1)

(***************************************************************************)
(* Properties of the order of the cards of a Deck.                         *)
(***************************************************************************)
\* a < b in the ordering of the cards
Less(a, b) == ~Card_lt(a, b).not_implemented /\ Card_lt(a, b).result

\* C29: draw(n), 1 <= n <= len(deck), on a deck kept sorted returns the n
\* highest cards of the deck in the ordering of the cards (by value, then by
\* suit): every card returned is above every card left.
DrawHighestFirst ==
    (/\ deck_call.op = "draw"
     /\ Before.sorted
     /\ 1 <= deck_call.num_cards
     /\ deck_call.num_cards <= Len(Before.cards))
        => /\ Succeeded
           /\ Len(deck_call.ret) = deck_call.num_cards
           /\ \A c \in Range(deck_call.ret), d \in Range(deck_obj.cards) : Less(d, c)

(***************************************************************************)
(* Properties of the exceptions of Deck.remove.                            *)
(***************************************************************************)
\* the text matches the pattern "not found in deck"
MatchesNotFound(message) == message = NotFoundMessage

\* C30: remove(card) for a card of another card system raises the ValueError
\* whose text says 'not found in deck', as remove of an absent card of the
\* deck's own system does, and leaves the deck as it was.
RemoveOtherSystem ==
    (/\ deck_call.op = "remove"
     /\ Len(deck_call.cards_arg) = 1
     /\ deck_call.cards_arg[1] \notin Range(Before.cards))
        => /\ deck_call.raised = "ValueError"
           /\ MatchesNotFound(deck_call.message)
           /\ deck_obj = Before

(***************************************************************************)
(* Properties of the order of a sorted Deck and of failed calls.           *)
(***************************************************************************)
\* the last call is the construction or a draw, append or remove
MethodCall == deck_call.op \in {"__init__", "draw", "append", "remove"}

\* C31: a Deck with sorted = True holds its cards in strictly ascending order
\* of their canonical indices after its construction and after every draw,
\* append or remove that succeeded; a full deck starts with the first value
\* of suit 0 and ends with the last value of the last suit.
SortedOrder ==
    (deck_obj.sorted /\ MethodCall /\ Succeeded) =>
        /\ Ascending(deck_obj.cards)
        /\ Len(deck_obj.cards) = CARD_SYSTEMS[deck_obj.card_system_key].deck_size =>
              /\ deck_obj.cards[1] = LowestCard(deck_obj.card_system_key)
              /\ deck_obj.cards[Len(deck_obj.cards)] = HighestCard(deck_obj.card_system_key)

\* the lowest card was removed from a full sorted deck and appended again: it
\* went to the end of the list and the sort brought it back to the front
SortedOrderWitness ==
    /\ deck_obj.sorted
    /\ deck_call.op = "append"
    /\ Succeeded
    /\ deck_call.cards_arg = <<LowestCard(deck_obj.card_system_key)>>
    /\ Len(deck_obj.cards) = CARD_SYSTEMS[deck_obj.card_system_key].deck_size
    /\ deck_obj.cards[1] = LowestCard(deck_obj.card_system_key)

(***************************************************************************)
(* Properties of the cumulative rewards.                                   *)
(***************************************************************************)

\* C32: every reward assigned to a player is added to that player's
\* cumulative reward before a step clears it: over a step, each player's
\* cumulative reward grows by the reward the player held before the step, and
\* so last() returns for the player whose turn it is the rewards this player
\* was given since reset.
RewardsAccumulated ==
    [][(PlayStep \/ InvalidStep) =>
         /\ \A a \in Agents :
               env'.cumulative_rewards[a] =
                   env.cumulative_rewards[a] + env.rewards[a]
         /\ Last_reward(env') =
               env.cumulative_rewards[env'.agent_selection]
                   + env.rewards[env'.agent_selection]]_vars

(***************************************************************************)
(* Properties of the hands and of the deck between reset and the end of    *)
(* the game.                                                               *)
(***************************************************************************)

\* C33: in every state reached from reset by any actions, the player whose
\* turn it is, when not terminated, holds a card: its action_mask has a 1.
ActiveCanMove ==
    CanAct =>
        /\ env.players_hands[Active] # << >>
        /\ \E i \in 1..MAX_HAND_SIZE : Observe_action_mask(env, Active)[i] = 1

\* the cards a refill deals: MAX_HAND_SIZE to each player
RoundSize == Len(possible_agents) * MAX_HAND_SIZE

\* the deck that reset leaves under the hands and the table is a whole number
\* of refills (40 - 6 - 4 = 30 = 5 * 6 cards in italian_40)
DeckOfWholeRounds ==
    (DECK_SIZE - RoundSize - INITIAL_TABLE_CARDS) % RoundSize = 0

\* C34: in every state after reset the deck holds a multiple of
\* num_players * HAND_SIZE cards, and the state with both hands empty and
\* cards left in the deck, from which no refill can happen, is not reached.
NoStuckGame ==
    (WasReset /\ DeckOfWholeRounds) =>
        /\ Len(env.deck) % RoundSize = 0
        /\ ~(AllHandsEmpty(env) /\ env.deck # << >>)

\* a refill has dealt the last cards of the deck: both hands are full again
\* after the play that emptied them
NoStuckGameWitness ==
    /\ WasReset /\ DeckOfWholeRounds /\ env.error = "none"
    /\ plays = RoundSize
    /\ \A a \in Agents : Len(env.players_hands[a]) = MAX_HAND_SIZE
    /\ Len(env.deck) = DECK_SIZE - INITIAL_TABLE_CARDS - 2 * RoundSize

\* C35: in every state reached from reset by any actions, each hand holds at
\* most HAND_SIZE cards, so every card of a hand has an action index of the
\* action space Discrete(MAX_HAND_SIZE).
HandBound ==
    WasReset =>
        \A a \in Agents :
            /\ Len(env.players_hands[a]) <= MAX_HAND_SIZE
            /\ \A i \in 1..Len(env.players_hands[a]) : (i - 1) \in 0..(MAX_HAND_SIZE - 1)

\* after an invalid action and a refill, one player holds a full hand while
\* it is the turn of the other, who has played a card of the new hand
HandBoundWitness ==
    /\ WasReset /\ env.error = "none" /\ invalid > 0
    /\ plays = RoundSize + 1
    /\ \E a \in Agents : Len(env.players_hands[a]) = MAX_HAND_SIZE

(***************************************************************************)
(* Properties of the failures of Deck.append and Deck.remove.              *)
(***************************************************************************)

\* C37: when append or remove fails, also on a list whose offending card is
\* not its first, the deck holds the set of cards it held before the call and
\* state is still the projection of the deck's cards.
AtomicFailure ==
    (deck_call.op \in {"append", "remove"} /\ ~Succeeded) =>
        /\ Range(deck_obj.cards) = Range(Before.cards)
        /\ deck_obj.state = BitsOf(deck_obj)

(***************************************************************************)
(* Properties of the infos dictionaries.                                   *)
(***************************************************************************)

\* C36: after a step, the info of the player who acted holds 'error' exactly
\* when the action was invalid (a valid action takes out the 'error' of an
\* earlier invalid one), and the info of the other player keeps or lacks
\* 'error' as before: a player's info holds 'error' if and only if the
\* player's most recent action was invalid.
ErrorFlag ==
    [][(PlayStep \/ InvalidStep) =>
         /\ ("error" \in infos'[env.agent_selection]) <=> InvalidStep
         /\ ("error" \in infos'[Other(env.agent_selection)])
               <=> ("error" \in infos[Other(env.agent_selection)])]_vars

(***************************************************************************)
(* Properties of the Deck class of toulouse/core.py.                       *)
(***************************************************************************)

\* C38: after source.move_card_to(card, dest), either the call succeeded and
\* the card is in dest and no longer in source, or the call failed and both
\* decks hold the cards they held before it: the card is never lost from
\* both decks.
MoveAllOrNothing ==
    core_call.op = "move_card_to" =>
        LET source == decks[core_call.on]
            dest   == decks[CHOOSE o \in DeckNames : o # core_call.on]
            card   == core_call.card
        IN  \/ /\ core_call.raised = NoRaise
               /\ card \in Range(dest._cards)
               /\ card \notin Range(source._cards)
            \/ /\ core_call.raised # NoRaise
               /\ \A name \in DeckNames :
                     decks[name]._cards = core_call.before[name]._cards

\* C39: after any calls of draw, append, remove, shuffle, sort and reset, the
\* lookup set of each deck is the set of the cards of its list, so contains
\* is true of a card exactly when the card is in the deck.
ListSetConsistency ==
    \A name \in DeckNames :
        /\ decks[name]._card_set = Range(decks[name]._cards)
        /\ \A card \in CoreArgCards :
              Core_Deck_contains(decks[name], card) <=> card \in Range(decks[name]._cards)

====
